---- MODULE Spec2Model ----
(***************************************************************************)
(* Move-selection core of badchessbots: the evaluators of                  *)
(* src/alg/evaluators.rs, SingleLookaheadEngine (src/alg/one_lookahead.rs) *)
(* and TreeSearchEngine (src/alg/tree_search.rs), and the game harness     *)
(* ChessDisplay (src/gui/chess_display.rs) that runs an engine on a        *)
(* background thread and applies its move from the foreground loop.        *)
(*                                                                         *)
(* Scores are f32 values.  A finite score is an integer number of units of *)
(* 0.00005, so that 1.0 is ONE units and the tie tolerance 0.0001 is EPS   *)
(* units.  The two infinities and the two sentinels -10e20 and -10e10 do   *)
(* not fit that grid; they are the order-preserving codes INF, NEG_INF,    *)
(* MATE and CHECK, and the arithmetic on infinities (inf - inf = NaN, every*)
(* comparison with NaN false) is spelled out in Near.                      *)
(***************************************************************************)
EXTENDS Integers, Sequences, FiniteSets, TLC

VARIABLES
    engine,        \* which ChessAlgorithm runs: "single" or "tree"
    depth,         \* TreeSearchEngine.depth
    color,         \* the engine's color / the evaluator's perspective
    evaluator,     \* the eval closure: "table" (any total finite function) or a named evaluator
    board,         \* Board: piece placement, Square -> Cell
    side_to_move,  \* Board::side_to_move()
    checkers,      \* Board::checkers(): squares of the pieces giving check
    en_passant,    \* Board::en_passant(): the square a pawn may capture onto en passant
    moves,         \* MoveGen::new_legal(&board), in enumeration order
    idx,           \* number of moves the loop of get_move has consumed
    best_score,    \* get_move: best_score
    best_moves,    \* get_move: best_moves
    scores,        \* the value of the local `score` in each iteration so far
    evals,         \* evaluator results on the successors of the root, in order
    stack,         \* call stack of alpha_beta_min / alpha_beta_max
    ret,           \* <<v>> when a call has just returned v, else <<>>
    pc,            \* position of the running call
    result,        \* the move get_move returned
    value,         \* the score an evaluator returned, as value / divisor
    divisor,       \* 1, or the `moves.len()` that eval_insist_3 divides by
    exact,         \* ghost: <<x>> beside ret = <<v>>, x the unpruned minimax value of that call
    exacts,        \* ghost: the unpruned minimax value of each root move scored so far
    last_eval,     \* ghost: <<a>>, a the arguments of the engine's latest call of self.eval
    tally,         \* the loops of eval_insist_2 and eval_generous over the replies of a position
    white_player,      \* ChessDisplay.white_player: "Human" or "Computer"
    black_player,      \* ChessDisplay.black_player
    selected_square,   \* ChessDisplay.selected_square
    next_move_future,  \* ChessDisplay.next_move_future: <<>> for None, <<v>> for Some
    history,           \* ChessDisplay.history
    reversable_moves,  \* ChessDisplay.reversable_moves
    outcome,           \* ChessDisplay.outcome
    threads            \* the threads try_launch_engine has spawned, in order

vars == <<engine, depth, color, evaluator, board, side_to_move, checkers, en_passant, moves,
          idx, best_score, best_moves, scores, evals, stack, ret, pc, result, value, divisor,
          exact, exacts, last_eval, tally, white_player, black_player, selected_square, next_move_future,
          history, reversable_moves, outcome, threads>>

\* the fields of ChessDisplay besides its board, and its threads
display == <<white_player, black_player, selected_square, next_move_future, history,
             reversable_moves, outcome, threads>>

----------------------------------------------------------------------------
(* Bounds of the model *)

MaxMoves == 3       \* legal moves of an abstract root position
MaxReplies == 2     \* legal moves of a position inside the searched tree
MaxDepth == 2       \* TreeSearchEngine.depth
MaxScore == 2       \* finite scores of the abstract evaluator: 0..MaxScore units
MaxPieces == 2      \* pieces besides the kings on a board given to an evaluator

----------------------------------------------------------------------------
(* f32 scores *)

EPS == 2
ONE == 20000
INF == 2000000000
NEG_INF == -2000000000
MATE == -1000000000
CHECK == -500000000

IsInf(x) == x = INF \/ x = NEG_INF

\* (score - best_score).abs() < 0.0001
Near(score, best) ==
    /\ ~IsInf(score)
    /\ ~IsInf(best)
    /\ (IF score < best THEN best - score ELSE score - best) < EPS

FiniteScores == 0..MaxScore

----------------------------------------------------------------------------
(* Rules collaborator: squares, pieces, boards, moves *)

White == "White"
Black == "Black"
Colors == {White, Black}
Pieces == {"Pawn", "Knight", "Bishop", "Rook", "Queen", "King"}

NUM_SQUARES == 64
ALL_SQUARES == 0..(NUM_SQUARES - 1)

get_rank(square) == square \div 8
get_file(square) == square % 8

Empty == [color |-> "None", piece |-> "None"]
Cell(c, p) == [color |-> c, piece |-> p]

BackRank == <<"Rook", "Knight", "Bishop", "Queen", "King", "Bishop", "Knight", "Rook">>

\* Board::default()
StartBoard ==
    [sq \in ALL_SQUARES |->
        CASE get_rank(sq) = 0 -> Cell(White, BackRank[get_file(sq) + 1])
          [] get_rank(sq) = 1 -> Cell(White, "Pawn")
          [] get_rank(sq) = 6 -> Cell(Black, "Pawn")
          [] get_rank(sq) = 7 -> Cell(Black, BackRank[get_file(sq) + 1])
          [] OTHER -> Empty]

Move(s, d) == [source |-> s, dest |-> d]

\* the 20 first moves of the starting position; a prefix of them stands for
\* the enumeration of a root position whose board the model leaves abstract
MovePool ==
    << Move(8, 16), Move(8, 24), Move(9, 17), Move(9, 25),
       Move(10, 18), Move(10, 26), Move(11, 19), Move(11, 27),
       Move(12, 20), Move(12, 28), Move(13, 21), Move(13, 29),
       Move(14, 22), Move(14, 30), Move(15, 23), Move(15, 31),
       Move(1, 16), Move(1, 18), Move(6, 21), Move(6, 23) >>

opposite(c) == IF c = White THEN Black ELSE White

NoSquare == NUM_SQUARES

Abs(x) == IF x < 0 THEN -x ELSE x
Sgn(x) == IF x < 0 THEN -1 ELSE IF x > 0 THEN 1 ELSE 0
Max(x, y) == IF x < y THEN y ELSE x
Min(x, y) == IF y < x THEN y ELSE x

RankDiff(from, to) == get_rank(to) - get_rank(from)
FileDiff(from, to) == get_file(to) - get_file(from)

\* the squares strictly between two squares of one rank, file or diagonal
Between(from, to) ==
    LET step == 8 * Sgn(RankDiff(from, to)) + Sgn(FileDiff(from, to))
        n == Max(Abs(RankDiff(from, to)), Abs(FileDiff(from, to)))
    IN  {from + k * step : k \in 1..(n - 1)}

Forward(c) == IF c = White THEN 1 ELSE -1
PawnRank(c) == IF c = White THEN 1 ELSE 6

\* the piece on `from` attacks the square `to`
Attacks(b, from, to) ==
    LET dr == RankDiff(from, to)
        df == FileDiff(from, to)
        straight == (dr = 0 \/ df = 0) /\ \A sq \in Between(from, to) : b[sq] = Empty
        diagonal == Abs(dr) = Abs(df) /\ \A sq \in Between(from, to) : b[sq] = Empty
    IN  /\ from # to
        /\ CASE b[from].piece = "Pawn" -> dr = Forward(b[from].color) /\ Abs(df) = 1
             [] b[from].piece = "Knight" -> {Abs(dr), Abs(df)} = {1, 2}
             [] b[from].piece = "Bishop" -> diagonal
             [] b[from].piece = "Rook" -> straight
             [] b[from].piece = "Queen" -> straight \/ diagonal
             [] b[from].piece = "King" -> Max(Abs(dr), Abs(df)) = 1
             [] OTHER -> FALSE

\* Board::king_square
king_square(b, c) == CHOOSE sq \in ALL_SQUARES : b[sq] = Cell(c, "King")

\* Board::checkers() of a board on which c is to move
Checkers(b, c) ==
    LET king == king_square(b, c)
    IN  {sq \in ALL_SQUARES : b[sq].color = opposite(c) /\ Attacks(b, sq, king)}

\* the square of the pawn that the move takes en passant, NoSquare otherwise
EnPassantVictim(b, m) ==
    IF b[m.source].piece = "Pawn" /\ FileDiff(m.source, m.dest) # 0 /\ b[m.dest] = Empty
    THEN 8 * get_rank(m.source) + get_file(m.dest)
    ELSE NoSquare

\* Board::make_move_new on the piece placement (the generated positions have
\* no castling rights and no pawn that can reach its last rank)
make_move_new(b, m) ==
    [sq \in ALL_SQUARES |->
        IF sq = m.source \/ sq = EnPassantVictim(b, m) THEN Empty
        ELSE IF sq = m.dest THEN b[m.source]
        ELSE b[sq]]

\* the piece on `from` may move to `to`, its own king's safety aside
PseudoLegal(b, ep, from, to) ==
    LET c == b[from].color
        dr == RankDiff(from, to)
        df == FileDiff(from, to)
    IN  /\ b[to].color # c
        /\ IF b[from].piece = "Pawn"
           THEN \/ df = 0 /\ dr = Forward(c) /\ b[to] = Empty
                \/ df = 0 /\ dr = 2 * Forward(c) /\ get_rank(from) = PawnRank(c)
                      /\ b[to] = Empty /\ b[from + 8 * Forward(c)] = Empty
                \/ Abs(df) = 1 /\ dr = Forward(c) /\ (b[to].color = opposite(c) \/ to = ep)
           ELSE Attacks(b, from, to)

\* a pseudo-legal move is legal if it does not leave the mover's king attacked
Legal(b, c, ep, from, to) ==
    /\ PseudoLegal(b, ep, from, to)
    /\ Checkers(make_move_new(b, Move(from, to)), c) = {}

PieceOrder == <<"Pawn", "Knight", "Bishop", "Rook", "Queen", "King">>

SquareSeq == [i \in 1..NUM_SQUARES |-> i - 1]

\* the legal moves of the pieces Cell(c, piece), sources and destinations ascending
MovesOfPiece(b, c, ep, piece) ==
    LET from == SelectSeq(SquareSeq, LAMBDA sq : b[sq] = Cell(c, piece))
        RECURSIVE FromEach(_)
        FromEach(n) ==
            IF n = 0 THEN <<>>
            ELSE LET dests == SelectSeq(SquareSeq, LAMBDA to : Legal(b, c, ep, from[n], to))
                 IN  FromEach(n - 1) \o [i \in 1..Len(dests) |-> Move(from[n], dests[i])]
    IN  FromEach(Len(from))

\* MoveGen::new_legal yields the moves piece type by piece type
RECURSIVE MovesOfPieces(_, _, _, _)
MovesOfPieces(b, c, ep, n) ==
    IF n = 0 THEN <<>>
    ELSE MovesOfPieces(b, c, ep, n - 1) \o MovesOfPiece(b, c, ep, PieceOrder[n])

\* available_moves(&board)
available_moves(b, c, ep) == MovesOfPieces(b, c, ep, Len(PieceOrder))

\* Board::status()
status(ms, chk) ==
    IF ms # <<>> THEN "Ongoing" ELSE IF chk = {} THEN "Stalemate" ELSE "Checkmate"

----------------------------------------------------------------------------
(* Evaluators (src/alg/evaluators.rs) *)

\* mutant: the parity test is inverted
square_color_Flipped(square) ==
    IF (get_rank(square) + get_file(square)) % 2 = 1 THEN Black ELSE White

square_color(square) ==
    IF (get_rank(square) + get_file(square)) % 2 = 0 THEN Black ELSE White

\* the sum of term over the squares lo..hi; the terms are whole numbers of
\* points, which f32 adds exactly in any order
RECURSIVE SumRange(_, _, _)
SumRange(term, lo, hi) ==
    IF lo = hi THEN term[lo]
    ELSE SumRange(term, lo, (lo + hi) \div 2) + SumRange(term, (lo + hi) \div 2 + 1, hi)

\* `for square in ALL_SQUARES { ... score += term(square) ... }`
SumSquares(term, n) == IF n = 0 THEN 0 ELSE SumRange(term, 0, n - 1)

eval_matching_colors(b, c) ==
    SumSquares([sq \in ALL_SQUARES |->
                    IF b[sq].color = c
                    THEN (IF c = square_color(sq) THEN ONE ELSE -ONE)
                    ELSE 0],
               NUM_SQUARES)

\* mutant: a piece on a square of its own color costs nothing
eval_opposite_colors_NoPenalty(b, c) ==
    SumSquares([sq \in ALL_SQUARES |->
                    IF b[sq].color = c
                    THEN (IF c # square_color(sq) THEN ONE ELSE 0)
                    ELSE 0],
               NUM_SQUARES)

eval_opposite_colors(b, c) ==
    SumSquares([sq \in ALL_SQUARES |->
                    IF b[sq].color = c
                    THEN (IF c # square_color(sq) THEN ONE ELSE -ONE)
                    ELSE 0],
               NUM_SQUARES)

value_of_piece(piece) ==
    CASE piece = "Pawn" -> 1 * ONE
      [] piece = "Knight" -> 3 * ONE
      [] piece = "Bishop" -> 3 * ONE
      [] piece = "Rook" -> 5 * ONE
      [] piece = "Queen" -> 9 * ONE
      [] piece = "King" -> 0

\* what a call of an evaluator does: it returns the score v / per, or panics
Returns(v) == [panic |-> FALSE, v |-> v, per |-> 1]
Panics == [panic |-> TRUE, v |-> 0, per |-> 1]

\* mutant: the test of the checkers bitboard is inverted
eval_pacifist_Inverted(b, ms, chk, c) ==
    IF status(ms, chk) = "Checkmate" THEN Returns(MATE)
    ELSE IF chk = {} THEN Returns(CHECK)
    ELSE Returns(SumSquares([sq \in ALL_SQUARES |->
                                IF b[sq].color = opposite(c)
                                THEN value_of_piece(b[sq].piece) ELSE 0],
                            NUM_SQUARES))

\* mutant: the checkers bitboard is tested before the status
eval_pacifist_CheckFirst(b, ms, chk, c) ==
    IF chk # {} THEN Returns(CHECK)
    ELSE IF status(ms, chk) = "Checkmate" THEN Returns(MATE)
    ELSE Returns(SumSquares([sq \in ALL_SQUARES |->
                                IF b[sq].color = opposite(c)
                                THEN value_of_piece(b[sq].piece) ELSE 0],
                            NUM_SQUARES))

eval_pacifist(b, ms, chk, c) ==
    IF status(ms, chk) = "Checkmate" THEN Returns(MATE)
    ELSE IF chk # {} THEN Returns(CHECK)
    ELSE Returns(SumSquares([sq \in ALL_SQUARES |->
                                IF b[sq].color = opposite(c)
                                THEN value_of_piece(b[sq].piece) ELSE 0],
                            NUM_SQUARES))

\* `if let Some(capture) = board.piece_on(m.get_dest())`: the value of the
\* piece on the destination square, per move
DestValues(b, ms) ==
    [i \in 1..Len(ms) |->
        IF b[ms[i].dest] # Empty
        THEN [some |-> TRUE, v |-> value_of_piece(b[ms[i].dest].piece)]
        ELSE [some |-> FALSE, v |-> 0]]

RECURSIVE SumSeq(_, _)
SumSeq(seq, n) == IF n = 0 THEN 0 ELSE SumSeq(seq, n - 1) + seq[n].v

\* `score = f32::min(score, ...)` over the moves, from 10000.0
RECURSIVE MinSeq(_, _)
MinSeq(seq, n) ==
    IF n = 0 THEN 10000 * ONE
    ELSE LET rest == MinSeq(seq, n - 1) IN IF seq[n].v < rest THEN seq[n].v ELSE rest

eval_generous(b, stm, ms, c) ==
    IF stm = c THEN Panics
    ELSE Returns(SumSeq(DestValues(b, ms), Len(ms)))

\* mutant: the threshold test is reversed
eval_insist_2_Reversed(b, stm, ms, chk, c) ==
    IF stm = c THEN Panics
    ELSE IF status(ms, chk) = "Checkmate" THEN Returns(MATE)
    ELSE IF status(ms, chk) = "Stalemate" THEN Returns(CHECK)
    ELSE LET score == MinSeq(DestValues(b, ms), Len(ms)) IN
         IF score >= EPS
         THEN eval_generous(b, stm, ms, c)
         ELSE Returns(10000 * ONE + score)

eval_insist_2(b, stm, ms, chk, c) ==
    IF stm = c THEN Panics
    ELSE IF status(ms, chk) = "Checkmate" THEN Returns(MATE)
    ELSE IF status(ms, chk) = "Stalemate" THEN Returns(CHECK)
    ELSE LET score == MinSeq(DestValues(b, ms), Len(ms)) IN
         IF score < EPS
         THEN eval_generous(b, stm, ms, c)
         ELSE Returns(10000 * ONE + score)

\* mutant: the status is tested before the perspective
eval_insist_3_StatusFirst(b, stm, ms, chk, c) ==
    IF status(ms, chk) = "Checkmate" THEN Returns(MATE)
    ELSE IF status(ms, chk) = "Stalemate" THEN Returns(CHECK)
    ELSE IF stm = c THEN Panics
    ELSE [panic |-> FALSE, v |-> SumSeq(DestValues(b, ms), Len(ms)), per |-> Len(ms)]

\* `score += 1.0 / moves.len() as f32 * value_of_piece(capture)` per move with
\* a piece on its destination: the sum of the values over the one divisor
\* moves.len(), kept as the exact quotient v / per (the f32 rounding of
\* 1.0 / len is below the grid of the scores)
eval_insist_3(b, stm, ms, chk, c) ==
    IF stm = c THEN Panics
    ELSE IF status(ms, chk) = "Checkmate" THEN Returns(MATE)
    ELSE IF status(ms, chk) = "Stalemate" THEN Returns(CHECK)
    ELSE [panic |-> FALSE, v |-> SumSeq(DestValues(b, ms), Len(ms)), per |-> Len(ms)]

\* the finite scores (self.eval)(&res, self.color) can give for the successor
\* of the root by root move m; "table" is an arbitrary total finite evaluator,
\* "zero" the closure |_, _| 0.0
EvalSuccessor(m) ==
    CASE evaluator = "matching" -> {eval_matching_colors(make_move_new(board, m), color)}
      [] evaluator = "zero" -> {0}
      [] OTHER -> FiniteScores

\* the same for a position deeper in the tree, which the model does not build
EvalBelow ==
    IF evaluator = "zero" THEN {0} ELSE FiniteScores

----------------------------------------------------------------------------
(* The move loop shared by both engines (one_lookahead.rs 35-47,           *)
(* tree_search.rs 81-93)                                                   *)

\* mutant: the replace branch clears the set and forgets to push the move
TieStep_ForgetPush(bs, bm, m, score) ==
    IF Near(score, bs)
    THEN [best_score |-> bs, best_moves |-> Append(bm, m)]
    ELSE IF score > bs
    THEN [best_score |-> score, best_moves |-> <<>>]
    ELSE [best_score |-> bs, best_moves |-> bm]

\* mutant: the replace branch forgets best_moves.clear()
TieStep_NoClear(bs, bm, m, score) ==
    IF Near(score, bs)
    THEN [best_score |-> bs, best_moves |-> Append(bm, m)]
    ELSE IF score > bs
    THEN [best_score |-> score, best_moves |-> Append(bm, m)]
    ELSE [best_score |-> bs, best_moves |-> bm]

\* mutant: a near-equal score also becomes the new best_score
TieStep_TieMovesBest(bs, bm, m, score) ==
    IF Near(score, bs)
    THEN [best_score |-> score, best_moves |-> Append(bm, m)]
    ELSE IF score > bs
    THEN [best_score |-> score, best_moves |-> <<m>>]
    ELSE [best_score |-> bs, best_moves |-> bm]

\* mutant: the comparison is `>=`, so an equal infinite score replaces the set
TieStep_ReplaceOnEqual(bs, bm, m, score) ==
    IF Near(score, bs)
    THEN [best_score |-> bs, best_moves |-> Append(bm, m)]
    ELSE IF score >= bs
    THEN [best_score |-> score, best_moves |-> <<m>>]
    ELSE [best_score |-> bs, best_moves |-> bm]

TieStep(bs, bm, m, score) ==
    IF Near(score, bs)
    THEN [best_score |-> bs, best_moves |-> Append(bm, m)]
    ELSE IF score > bs
    THEN [best_score |-> score, best_moves |-> <<m>>]
    ELSE [best_score |-> bs, best_moves |-> bm]

NoFrames == <<>>
NoRet == <<>>
NoMove == Move(0, 0)
NoTally == <<>>

\* get_move is called on its own, by no ChessDisplay
NoDisplay ==
    /\ white_player = "Human"
    /\ black_player = "Human"
    /\ selected_square = NoSquare
    /\ next_move_future = <<>>
    /\ history = <<>>
    /\ reversable_moves = 0
    /\ outcome = "None"
    /\ threads = <<>>

InitAbstract ==
    /\ engine \in {"single", "tree"}
    /\ depth \in (IF engine = "tree" THEN 0..MaxDepth ELSE {0})
    /\ color = White
    /\ evaluator \in {"table", "zero"}
    /\ board = StartBoard
    /\ side_to_move = color
    /\ checkers = {}
    /\ en_passant = NoSquare
    /\ \E n \in 1..MaxMoves : moves = SubSeq(MovePool, 1, n)

InitStart ==
    /\ engine = "single"
    /\ depth = 0
    /\ color = White
    /\ evaluator = "matching"
    /\ board = StartBoard
    /\ side_to_move = White
    /\ checkers = Checkers(StartBoard, White)
    /\ en_passant = NoSquare
    /\ moves = available_moves(StartBoard, White, NoSquare)

Init ==
    /\ (InitAbstract \/ InitStart)
    /\ idx = 0
    /\ best_score = NEG_INF
    /\ best_moves = <<>>
    /\ scores = <<>>
    /\ evals = <<>>
    /\ stack = NoFrames
    /\ ret = NoRet
    /\ pc = "loop"
    /\ result = NoMove
    /\ value = 0
    /\ divisor = 1
    /\ exact = NoRet
    /\ exacts = <<>>
    /\ last_eval = <<>>
    /\ tally = NoTally
    /\ NoDisplay

position == <<engine, depth, color, evaluator, board, side_to_move, checkers, en_passant,
              moves>>

\* SingleLookaheadEngine::get_move, one iteration of `for m in available_moves(&board)`
SingleIterate ==
    /\ engine = "single"
    /\ pc = "loop"
    /\ idx < Len(moves)
    /\ LET m == moves[idx + 1] IN
       \E score \in EvalSuccessor(m) :
          LET t == TieStep(best_score, best_moves, m, score) IN
          /\ best_score' = t.best_score
          /\ best_moves' = t.best_moves
          /\ scores' = Append(scores, score)
          /\ evals' = Append(evals, score)
          /\ exacts' = Append(exacts, score)
    /\ last_eval' = <<[ply |-> 1, side_to_move |-> opposite(side_to_move), color |-> color]>>
    /\ idx' = idx + 1
    /\ UNCHANGED <<position, stack, ret, pc, result, value, divisor, exact, tally, display>>

\* best_moves[rng.gen_range(0..best_moves.len())]
Draw ==
    /\ pc = "loop"
    /\ idx = Len(moves)
    /\ best_moves # <<>>
    /\ \E i \in 1..Len(best_moves) : result' = best_moves[i]
    /\ pc' = "done"
    /\ UNCHANGED <<position, idx, best_score, best_moves, scores, evals, stack, ret, value,
                   divisor, exact, exacts, last_eval, tally, display>>

\* gen_range(0..0) panics on the empty range
DrawPanic ==
    /\ pc = "loop"
    /\ idx = Len(moves)
    /\ best_moves = <<>>
    /\ pc' = "panic"
    /\ UNCHANGED <<position, idx, best_score, best_moves, scores, evals, stack, ret,
                   result, value, divisor, exact, exacts, last_eval, tally, display>>

\* mutant: the root call is made on the board before the move
TreeCall_BeforeMove ==
    /\ engine = "tree"
    /\ pc = "loop"
    /\ idx < Len(moves)
    /\ stack' = <<[fn |-> "min", alpha |-> NEG_INF, beta |-> INF, depth |-> depth,
                   at |-> "entry", left |-> 0, exact |-> INF,
                   ply |-> 1, stm |-> side_to_move]>>
    /\ pc' = "search"
    /\ UNCHANGED <<position, idx, best_score, best_moves, scores, evals, ret, result, value,
                   divisor, exact, exacts, last_eval, tally, display>>

\* TreeSearchEngine::get_move, line 84: the call of alpha_beta_min for the next root move
TreeCall ==
    /\ engine = "tree"
    /\ pc = "loop"
    /\ idx < Len(moves)
    /\ stack' = <<[fn |-> "min", alpha |-> NEG_INF, beta |-> INF, depth |-> depth,
                   at |-> "entry", left |-> 0, exact |-> INF,
                   ply |-> 1, stm |-> opposite(side_to_move)]>>
    /\ pc' = "search"
    /\ UNCHANGED <<position, idx, best_score, best_moves, scores, evals, ret, result, value,
                   divisor, exact, exacts, last_eval, tally, display>>

\* TreeSearchEngine::get_move, lines 86-92, once alpha_beta_min has returned
TreeScore ==
    /\ engine = "tree"
    /\ pc = "search"
    /\ stack = NoFrames
    /\ ret # NoRet
    /\ LET m == moves[idx + 1]
           score == ret[1]
           t == TieStep(best_score, best_moves, m, score) IN
       /\ best_score' = t.best_score
       /\ best_moves' = t.best_moves
       /\ scores' = Append(scores, score)
    /\ exacts' = Append(exacts, exact[1])
    /\ idx' = idx + 1
    /\ ret' = NoRet
    /\ exact' = NoRet
    /\ pc' = "loop"
    /\ UNCHANGED <<position, evals, stack, result, value, divisor, last_eval, tally, display>>

Top == stack[Len(stack)]
Pop == SubSeq(stack, 1, Len(stack) - 1)
SetTop(f) == [stack EXCEPT ![Len(stack)] = f]

Searching(fn, at) ==
    /\ pc = "search"
    /\ stack # NoFrames
    /\ Top.fn = fn
    /\ Top.at = at

\* mutant: the horizon score is negated, as a negamax search would
HorizonReturn_Negated ==
    /\ Top.depth = 0
    /\ \E score \in (IF Len(stack) = 1 THEN EvalSuccessor(moves[idx + 1]) ELSE EvalBelow) :
          /\ ret' = <<-score>>
          /\ exact' = <<score>>
          /\ evals' = IF Len(stack) = 1 THEN Append(evals, score) ELSE evals
    /\ last_eval' = <<[ply |-> Top.ply, side_to_move |-> Top.stm, color |-> color]>>
    /\ stack' = Pop

\* `if depth == 0 { return (self.eval)(&board, self.color); }`
HorizonReturn ==
    /\ Top.depth = 0
    /\ \E score \in (IF Len(stack) = 1 THEN EvalSuccessor(moves[idx + 1]) ELSE EvalBelow) :
          /\ ret' = <<score>>
          /\ exact' = <<score>>
          /\ evals' = IF Len(stack) = 1 THEN Append(evals, score) ELSE evals
    /\ last_eval' = <<[ply |-> Top.ply, side_to_move |-> Top.stm, color |-> color]>>
    /\ stack' = Pop

\* mutant: the loop is entered at depth 0 as well
EnterLoop_AtHorizon ==
    /\ \E k \in 0..MaxReplies : stack' = SetTop([Top EXCEPT !.at = "for", !.left = k])
    /\ UNCHANGED <<ret, evals, exact, last_eval>>

\* mutant: a position without legal moves is evaluated, whatever its depth
EnterLoop_EvaluatesDeadEnd ==
    /\ Top.depth > 0
    /\ \/ /\ \E k \in 1..MaxReplies : stack' = SetTop([Top EXCEPT !.at = "for", !.left = k])
          /\ UNCHANGED <<ret, evals, exact, last_eval>>
       \/ /\ \E score \in EvalBelow : ret' = <<score>> /\ exact' = <<score>>
          /\ last_eval' = <<[ply |-> Top.ply, side_to_move |-> Top.stm, color |-> color]>>
          /\ stack' = Pop
          /\ UNCHANGED evals

\* `for m in MoveGen::new_legal(&board)`: the position has k legal moves
EnterLoop ==
    /\ Top.depth > 0
    /\ \E k \in 0..MaxReplies : stack' = SetTop([Top EXCEPT !.at = "for", !.left = k])
    /\ UNCHANGED <<ret, evals, exact, last_eval>>

\* the recursive call on the next move, with depth - 1
CallChild(fn) ==
    /\ Top.left > 0
    /\ stack' = Append(SetTop([Top EXCEPT !.at = "call", !.left = Top.left - 1]),
                       [fn |-> fn, alpha |-> Top.alpha, beta |-> Top.beta,
                        depth |-> Top.depth - 1, at |-> "entry", left |-> 0,
                        exact |-> IF fn = "min" THEN INF ELSE NEG_INF,
                        ply |-> Top.ply + 1, stm |-> opposite(Top.stm)])
    /\ UNCHANGED <<ret, evals, exact, last_eval>>

RootUnchanged ==
    UNCHANGED <<position, idx, best_score, best_moves, scores, pc, result, value, divisor,
                exacts, tally, display>>

\* ghost: the unpruned minimax values of a call of fn with depth d: the
\* evaluator's score at depth 0, else the value of one of its moves or, with
\* no legal move, +infinity for a minimizing and -infinity for a maximizing call
RECURSIVE ExactValues(_, _)
ExactValues(fn, d) ==
    IF d = 0 THEN EvalBelow
    ELSE IF fn = "min" THEN {INF} \cup ExactValues("max", d - 1)
    ELSE {NEG_INF} \cup ExactValues("min", d - 1)

\* ghost: what the moves that a cutoff leaves unvisited would have been worth
\* (calls of fn); `seen` when the cutoff came on the last move
Skipped(fn, seen) ==
    IF Top.left = 0 THEN {seen} ELSE ExactValues(fn, Top.depth - 1)

alpha_beta_max_entry ==
    /\ Searching("max", "entry")
    /\ ret = NoRet
    /\ (HorizonReturn \/ EnterLoop)
    /\ RootUnchanged

alpha_beta_max_next ==
    /\ Searching("max", "for")
    /\ ret = NoRet
    /\ \/ CallChild("min")
       \/ /\ Top.left = 0          \* loop exhausted: `alpha`
          /\ ret' = <<Top.alpha>>
          /\ exact' = <<Top.exact>>
          /\ stack' = Pop
          /\ UNCHANGED <<evals, last_eval>>
    /\ RootUnchanged

\* mutant: the cutoff returns alpha, as alpha_beta_min does
alpha_beta_max_score_ReturnsAlpha ==
    /\ Searching("max", "call")
    /\ ret # NoRet
    /\ LET score == ret[1]
           seen == Max(Top.exact, exact[1]) IN
       IF score >= Top.beta
       THEN /\ ret' = <<Top.alpha>>
            /\ stack' = Pop
            /\ \E x \in Skipped("min", seen) : exact' = <<Max(seen, x)>>
       ELSE /\ ret' = NoRet
            /\ stack' = SetTop([Top EXCEPT !.at = "for",
                                           !.alpha = IF score > Top.alpha THEN score
                                                     ELSE Top.alpha,
                                           !.exact = seen])
            /\ exact' = NoRet
    /\ UNCHANGED <<evals, last_eval>>
    /\ RootUnchanged

\* lines 39-45, with score the value alpha_beta_min returned
alpha_beta_max_score ==
    /\ Searching("max", "call")
    /\ ret # NoRet
    /\ LET score == ret[1]
           seen == Max(Top.exact, exact[1]) IN
       IF score >= Top.beta
       THEN /\ ret' = <<Top.beta>>
            /\ stack' = Pop
            /\ \E x \in Skipped("min", seen) : exact' = <<Max(seen, x)>>
       ELSE /\ ret' = NoRet
            /\ stack' = SetTop([Top EXCEPT !.at = "for",
                                           !.alpha = IF score > Top.alpha THEN score
                                                     ELSE Top.alpha,
                                           !.exact = seen])
            /\ exact' = NoRet
    /\ UNCHANGED <<evals, last_eval>>
    /\ RootUnchanged

alpha_beta_min_entry ==
    /\ Searching("min", "entry")
    /\ ret = NoRet
    /\ (HorizonReturn \/ EnterLoop)
    /\ RootUnchanged

alpha_beta_min_next ==
    /\ Searching("min", "for")
    /\ ret = NoRet
    /\ \/ CallChild("max")
       \/ /\ Top.left = 0          \* loop exhausted: `beta`
          /\ ret' = <<Top.beta>>
          /\ exact' = <<Top.exact>>
          /\ stack' = Pop
          /\ UNCHANGED <<evals, last_eval>>
    /\ RootUnchanged

\* mutant: the cutoff is fail-soft, it returns the score that caused it
alpha_beta_min_score_FailSoft ==
    /\ Searching("min", "call")
    /\ ret # NoRet
    /\ LET score == ret[1]
           seen == Min(Top.exact, exact[1]) IN
       IF score <= Top.alpha
       THEN /\ ret' = <<score>>
            /\ stack' = Pop
            /\ \E x \in Skipped("max", seen) : exact' = <<Min(seen, x)>>
       ELSE /\ ret' = NoRet
            /\ stack' = SetTop([Top EXCEPT !.at = "for",
                                           !.beta = IF score < Top.beta THEN score
                                                    ELSE Top.beta,
                                           !.exact = seen])
            /\ exact' = NoRet
    /\ UNCHANGED <<evals, last_eval>>
    /\ RootUnchanged

\* lines 61-67, with score the value alpha_beta_max returned
alpha_beta_min_score ==
    /\ Searching("min", "call")
    /\ ret # NoRet
    /\ LET score == ret[1]
           seen == Min(Top.exact, exact[1]) IN
       IF score <= Top.alpha
       THEN /\ ret' = <<Top.alpha>>
            /\ stack' = Pop
            /\ \E x \in Skipped("max", seen) : exact' = <<Min(seen, x)>>
       ELSE /\ ret' = NoRet
            /\ stack' = SetTop([Top EXCEPT !.at = "for",
                                           !.beta = IF score < Top.beta THEN score
                                                    ELSE Top.beta,
                                           !.exact = seen])
            /\ exact' = NoRet
    /\ UNCHANGED <<evals, last_eval>>
    /\ RootUnchanged

Next ==
    \/ SingleIterate
    \/ TreeCall
    \/ alpha_beta_min_entry
    \/ alpha_beta_min_next
    \/ alpha_beta_min_score
    \/ alpha_beta_max_entry
    \/ alpha_beta_max_next
    \/ alpha_beta_max_score
    \/ TreeScore
    \/ Draw
    \/ DrawPanic

Spec == Init /\ [][Next]_vars

\* get_move runs on a thread of its own, which is scheduled as long as it can step
SpecLive == Spec /\ WF_vars(Next)

TypeOK ==
    /\ idx \in 0..Len(moves)
    /\ pc \in {"loop", "search", "done", "panic"}

----------------------------------------------------------------------------
(* alpha_beta_max and alpha_beta_min as functions of their window: a call  *)
(* from line 37 or line 59 of a caller whose window is any alpha < beta    *)

\* the values a bound of a window can have
WindowBounds == {NEG_INF, INF} \cup FiniteScores

\* the caller stands at its recursive call, on its last move; the callee is entered
InitAlphaBeta ==
    /\ engine = "tree"
    /\ evaluator = "table"
    /\ color = White
    /\ board = StartBoard
    /\ side_to_move = color
    /\ checkers = {}
    /\ en_passant = NoSquare
    /\ moves = SubSeq(MovePool, 1, 1)
    /\ \E fn \in {"min", "max"}, d \in 1..MaxDepth, alpha, beta \in WindowBounds :
          LET ply == IF fn = "min" THEN 3 ELSE 2    \* minimizing calls are at odd plies
              stm == IF fn = "min" THEN opposite(side_to_move) ELSE side_to_move
          IN  /\ alpha < beta
              /\ depth = d + ply - 1
              /\ stack = <<[fn |-> IF fn = "min" THEN "max" ELSE "min", alpha |-> alpha,
                            beta |-> beta, depth |-> d + 1, at |-> "call", left |-> 0,
                            exact |-> IF fn = "min" THEN NEG_INF ELSE INF,
                            ply |-> ply - 1, stm |-> opposite(stm)],
                           [fn |-> fn, alpha |-> alpha, beta |-> beta, depth |-> d,
                            at |-> "entry", left |-> 0,
                            exact |-> IF fn = "min" THEN INF ELSE NEG_INF,
                            ply |-> ply, stm |-> stm]>>
    /\ idx = 0
    /\ best_score = NEG_INF
    /\ best_moves = <<>>
    /\ scores = <<>>
    /\ evals = <<>>
    /\ ret = NoRet
    /\ pc = "search"
    /\ result = NoMove
    /\ value = 0
    /\ divisor = 1
    /\ exact = NoRet
    /\ exacts = <<>>
    /\ last_eval = <<>>
    /\ tally = NoTally
    /\ NoDisplay

NextAlphaBeta ==
    \/ alpha_beta_min_entry
    \/ alpha_beta_min_next
    \/ alpha_beta_min_score
    \/ alpha_beta_max_entry
    \/ alpha_beta_max_next
    \/ alpha_beta_max_score

SpecAlphaBeta == InitAlphaBeta /\ [][NextAlphaBeta]_vars

----------------------------------------------------------------------------
(* The evaluators as functions of a position: a board is drawn, one        *)
(* evaluator is called on it                                               *)

WhiteKingSquares == {4, 44}      \* e1, e6
BlackKingSquares == {60}         \* e8
PoolSquares == {35, 36, 52}      \* d5, e5, e7
PoolPieces == Pieces \ {"King"}

\* the kings and at most MaxPieces more pieces, on the pool squares
Boards ==
    UNION {
      UNION {
        { [sq \in ALL_SQUARES |->
              IF sq = kings[1] THEN Cell(White, "King")
              ELSE IF sq = kings[2] THEN Cell(Black, "King")
              ELSE IF sq \in used THEN place[sq]
              ELSE Empty] :
          place \in [used -> {Cell(c, p) : c \in Colors, p \in PoolPieces}] } :
        used \in {u \in SUBSET PoolSquares : Cardinality(u) <= MaxPieces} } :
      kings \in WhiteKingSquares \X BlackKingSquares }

\* the same with White's king on a1 shut in by Black's queen on c2, and
\* Black's king on e6: White has no king move
CorneredBoards ==
    UNION {
      { [sq \in ALL_SQUARES |->
            IF sq = 0 THEN Cell(White, "King")
            ELSE IF sq = 10 THEN Cell(Black, "Queen")
            ELSE IF sq = 44 THEN Cell(Black, "King")
            ELSE IF sq \in used THEN place[sq]
            ELSE Empty] :
        place \in [used -> {Cell(c, p) : c \in Colors, p \in PoolPieces}] } :
      used \in {u \in SUBSET PoolSquares : Cardinality(u) <= MaxPieces} }

\* the squares onto which the side to move might capture en passant: the
\* enemy pawn stands one step beyond, and the two squares it passed are empty
EnPassantSquares(b, c) ==
    {sq \in ALL_SQUARES :
        /\ get_rank(sq) = PawnRank(opposite(c)) + Forward(opposite(c))
        /\ b[sq] = Empty
        /\ b[sq + 8 * Forward(c)] = Empty
        /\ b[sq - 8 * Forward(c)] = Cell(opposite(c), "Pawn")}

InitEval ==
    /\ board \in Boards \cup CorneredBoards
    /\ side_to_move \in Colors
    /\ Checkers(board, opposite(side_to_move)) = {}   \* the side that moved is not in check
    /\ color = White
    /\ en_passant \in {NoSquare} \cup EnPassantSquares(board, side_to_move)
    /\ checkers = Checkers(board, side_to_move)
    /\ moves = available_moves(board, side_to_move, en_passant)
    /\ engine = "none"
    /\ evaluator = "none"
    /\ depth = 0
    /\ idx = 0
    /\ best_score = NEG_INF
    /\ best_moves = <<>>
    /\ scores = <<>>
    /\ evals = <<>>
    /\ stack = NoFrames
    /\ ret = NoRet
    /\ pc = "ready"
    /\ result = NoMove
    /\ value = 0
    /\ divisor = 1
    /\ exact = NoRet
    /\ exacts = <<>>
    /\ last_eval = <<>>
    /\ tally = NoTally
    /\ NoDisplay

\* the call name(&board, c) of an evaluator, with outcome r
Evaluate(name, c, r) ==
    /\ pc = "ready"
    /\ evaluator' = name
    /\ color' = c
    /\ pc' = IF r.panic THEN "panic" ELSE "returned"
    /\ value' = r.v
    /\ divisor' = r.per
    /\ UNCHANGED <<engine, depth, board, side_to_move, checkers, en_passant, moves,
                   idx, best_score, best_moves, scores, evals, stack, ret, result,
                   exact, exacts, last_eval, tally, display>>

CallPacifist ==
    \E c \in Colors : Evaluate("pacifist", c, eval_pacifist(board, moves, checkers, c))
CallGenerous ==
    \E c \in Colors : Evaluate("generous", c, eval_generous(board, side_to_move, moves, c))
CallInsist2 ==
    \E c \in Colors :
        Evaluate("insist_2", c, eval_insist_2(board, side_to_move, moves, checkers, c))

CallInsist3 ==
    \E c \in Colors :
        Evaluate("insist_3", c, eval_insist_3(board, side_to_move, moves, checkers, c))
CallMatching ==
    \E c \in Colors : Evaluate("matching", c, Returns(eval_matching_colors(board, c)))
CallOpposite ==
    \E c \in Colors : Evaluate("opposite", c, Returns(eval_opposite_colors(board, c)))

NextEval ==
    \/ CallPacifist
    \/ CallGenerous
    \/ CallInsist2
    \/ CallInsist3
    \/ CallMatching
    \/ CallOpposite

SpecEval == InitEval /\ [][NextEval]_vars

----------------------------------------------------------------------------
(* eval_insist_2 on a position given by its legal replies alone: the loop  *)
(* of lines 148-156 and, beside it, the loop of eval_generous (lines       *)
(* 126-130) over the same replies, one reply at a time                     *)

MaxLegalReplies == 218     \* legal moves of a position

\* `board.piece_on(m.get_dest())` for a legal reply: None, or a piece but the king
Captures == {"None"} \cup (Pieces \ {"King"})

\* mutant: the offset is 1000.0
insist_2_return_SmallOffset(score, generous) ==
    IF score < EPS THEN generous ELSE 1000 * ONE + score

\* lines 159-164, with `generous` what eval_generous(board, color) returns
insist_2_return(score, generous) ==
    IF score < EPS THEN generous ELSE 10000 * ONE + score

InitReplies ==
    /\ engine = "none"
    /\ evaluator = "insist_2"
    /\ depth = 0
    /\ color = White
    /\ board = StartBoard
    /\ side_to_move = Black
    /\ checkers = {}
    /\ en_passant = NoSquare
    /\ moves = <<>>
    /\ idx = 0
    /\ best_score = NEG_INF
    /\ best_moves = <<>>
    /\ scores = <<>>
    /\ evals = <<>>
    /\ stack = NoFrames
    /\ ret = NoRet
    /\ pc = "replies"
    /\ result = NoMove
    /\ value = 0
    /\ divisor = 1
    /\ exact = NoRet
    /\ exacts = <<>>
    /\ last_eval = <<>>
    /\ tally = <<[n |-> 0, min |-> 10000 * ONE, sum |-> 0]>>
    /\ NoDisplay

RepliesUnchanged ==
    UNCHANGED <<position, idx, best_score, best_moves, scores, evals, stack, ret, result,
                divisor, exact, exacts, last_eval, display>>

\* one more legal reply: `score = f32::min(score, ...)` and `score += ...`
ReplyStep ==
    /\ pc = "replies"
    /\ tally[1].n < MaxLegalReplies
    /\ \E capture \in Captures :
          LET v == IF capture = "None" THEN 0 ELSE value_of_piece(capture) IN
          tally' = <<[n |-> tally[1].n + 1, min |-> Min(tally[1].min, v),
                      sum |-> tally[1].sum + v]>>
    /\ UNCHANGED <<pc, value>>
    /\ RepliesUnchanged

\* the position has the replies consumed so far and no other
ReplyReturn ==
    /\ pc = "replies"
    /\ tally[1].n > 0
    /\ value' = insist_2_return(tally[1].min, tally[1].sum)
    /\ pc' = "returned"
    /\ UNCHANGED tally
    /\ RepliesUnchanged

\* the position has no legal reply: lines 142-146
ReplyNone ==
    /\ pc = "replies"
    /\ tally[1].n = 0
    /\ value' \in {MATE, CHECK}
    /\ pc' = "returned"
    /\ UNCHANGED tally
    /\ RepliesUnchanged

NextReplies ==
    \/ ReplyStep
    \/ ReplyReturn
    \/ ReplyNone

SpecReplies == InitReplies /\ [][NextReplies]_vars

----------------------------------------------------------------------------
(* The game harness (src/gui/chess_display.rs): ChessDisplay::new, the     *)
(* handlers update and mouse_button_down_event of the foreground loop,     *)
(* which run one at a time, and the threads try_launch_engine spawns,      *)
(* which step in between.  A game is followed for MaxPlies moves, from     *)
(* Board::default() (too few moves for castling or a promotion) or from an *)
(* endgame of king and queen against king; the clicks fall on PlaySquares, *)
(* and an engine returns its first legal move or a legal move among        *)
(* PlaySquares.                                                            *)

MaxPlies == 4           \* moves of a game that are followed from the start
MaxEndgamePlies == 3    \* moves of a game that are followed in an endgame

\* f2, g2, f3, g4, h4, e5, e7, d8: the squares of 1. f3 e5 2. g4 Qh4#
OpeningSquares == {13, 14, 21, 30, 31, 36, 52, 59}

\* f6, g6, h6, e7, f7, g7, f8, g8, h8 around the kings, and b4, b5, h7
EndgameSquares == {45, 46, 47, 52, 53, 54, 61, 62, 63, 25, 33, 55}

PlaySquares ==
    IF Cardinality({sq \in ALL_SQUARES : board[sq] # Empty}) <= 3
    THEN EndgameSquares ELSE OpeningSquares

MoveCountRule == 50     \* `self.reversable_moves >= 50`

\* White's king, White's queen and Black's king
EndgameBoard(wk, wq, bk) ==
    [sq \in ALL_SQUARES |->
        IF sq = wk THEN Cell(White, "King")
        ELSE IF sq = wq THEN Cell(White, "Queen")
        ELSE IF sq = bk THEN Cell(Black, "King")
        ELSE Empty]

\* a position without en passant square
Endgame(b, stm) == [board |-> b, side_to_move |-> stm, en_passant |-> NoSquare]

\* Kg6, Qf7 against Kh8 with White to move, then Qf6+ Kg8 Qf7+ Kh8, which
\* leads back to it
MatingCycle ==
    << Endgame(EndgameBoard(46, 53, 63), White), Endgame(EndgameBoard(46, 45, 63), Black),
       Endgame(EndgameBoard(46, 45, 62), White), Endgame(EndgameBoard(46, 53, 62), Black) >>

\* the position after n moves of a game that goes round the cycle
MatingGame(n) == MatingCycle[(n % Len(MatingCycle)) + 1]

\* twice round the cycle and two moves more: the position reached has
\* occurred twice before, and Qf7+ Kh8 leads to the first position of the
\* cycle, which has occurred three times
MatingPlies == 2 * Len(MatingCycle) + 2

\* Ke1, Qa2 against Kh8 with White to move: the queen goes round a2, a3, a4,
\* a5, a6, b6, b5, b4, b3 while Black's king goes to and fro between h8 and
\* h7; the position after n moves
TourSquares == <<8, 16, 24, 32, 40, 41, 33, 25, 17>>
TourGame(n) ==
    Endgame(EndgameBoard(4, TourSquares[(((n + 1) \div 2) % Len(TourSquares)) + 1],
                         IF (n \div 2) % 2 = 0 THEN 63 ELSE 55),
            IF n % 2 = 0 THEN White ELSE Black)

\* two moves short of the move-count rule; no position has occurred three times
TourPlies == MoveCountRule - 2

\* the moves made before the game is followed, none of them a capture or a
\* pawn move: history holds the positions since the last such move
Prelude ==
    IF history = <<>> THEN 0
    ELSE IF history[1] = MatingGame(0) THEN MatingPlies
    ELSE IF history[1] = TourGame(0) THEN TourPlies
    ELSE 0

\* the moves that have been followed, and how many of them are
PliesFollowed == Len(history) - Prelude
PliesBound == IF Prelude = 0 THEN MaxPlies ELSE MaxEndgamePlies

\* the engine's call state, which no handler of the harness touches
engine_call == <<engine, depth, color, evaluator, idx, best_score, best_moves, scores, evals,
                 stack, ret, pc, result, value, divisor, exact, exacts, last_eval, tally>>

\* a Board as far as `==` on Boards compares it
Position(b, stm, ep) == [board |-> b, side_to_move |-> stm, en_passant |-> ep]

\* Board::en_passant() after the move: set when a pawn has advanced two
\* squares and an enemy pawn stands beside it
EnPassantAfter(b, m) ==
    IF /\ b[m.source].piece = "Pawn"
       /\ Abs(RankDiff(m.source, m.dest)) = 2
       /\ \E sq \in ALL_SQUARES :
             /\ get_rank(sq) = get_rank(m.dest)
             /\ Abs(FileDiff(sq, m.dest)) = 1
             /\ b[sq] = Cell(opposite(b[m.source].color), "Pawn")
    THEN (m.source + m.dest) \div 2
    ELSE NoSquare

is_insufficient_material(b) ==
    \A c \in Colors :
        LET num(piece) == Cardinality({sq \in ALL_SQUARES : b[sq] = Cell(c, piece)})
        IN  ~ \/ num("Pawn") > 0
              \/ num("Queen") > 0
              \/ num("Rook") > 0
              \/ num("Bishop") > 1
              \/ num("Knight") > 2
              \/ (num("Knight") > 1 /\ num("Bishop") > 1)

\* ChessDisplay::detect_draw: the outcome it sets, "None" if it returns false
detect_draw(pos, ms, chk, hist, rev) ==
    IF status(ms, chk) = "Stalemate" THEN "Stalemate"
    ELSE IF is_insufficient_material(pos.board) THEN "InsufficientMaterial"
    ELSE IF Cardinality({i \in 1..Len(hist) : hist[i] = pos}) >= 3 THEN "DrawByRepetition"
    ELSE IF rev >= MoveCountRule THEN "DrawBy50MoveRule"
    ELSE "None"

\* ChessDisplay::current_player
current_player(stm) == IF stm = White THEN white_player ELSE black_player

\* main_gui.rs 377-378: `white_picker.get(chess::Color::White)` and
\* `black_picker.get(chess::Color::Black)` construct the two players, and
\* every entry of ALL_PLAYER_TYPES passes that color to its engine
white_player_color == White
black_player_color == Black

\* the color of the engine that current_player holds
engine_color(stm) == IF stm = White THEN white_player_color ELSE black_player_color

\* the closure of thread::spawn, about to lock the engine of the side to
\* move, with its clone of the board; written, applied and dropped count
\* what has happened to the move it computes
Spawned(pos, ms) ==
    [engine |-> pos.side_to_move, color |-> engine_color(pos.side_to_move), board |-> pos,
     moves |-> ms, at |-> "lock", m |-> NoMove, written |-> 0, applied |-> 0, dropped |-> 0]

\* the threads once the value in slot, if any, has been thrown away unread
Dropped(slot, thr) ==
    IF slot = <<>> THEN thr ELSE [thr EXCEPT ![slot[1].by].dropped = @ + 1]

\* mutant: a computation is launched on a human player's turn as well
try_launch_engine_AnyPlayer(out, pos, ms, slot, thr) ==
    IF out # "None"
    THEN [outcome |-> out, next_move_future |-> slot, threads |-> thr]
    ELSE [outcome |-> out,
          next_move_future |-> <<>>,
          threads |-> Append(Dropped(slot, thr), Spawned(pos, ms))]

\* ChessDisplay::try_launch_engine
try_launch_engine(out, pos, ms, slot, thr) ==
    IF out # "None"
    THEN [outcome |-> out, next_move_future |-> slot, threads |-> thr]
    ELSE IF current_player(pos.side_to_move) = "Computer"
    THEN [outcome |-> out,
          next_move_future |-> <<>>,                    \* take()
          threads |-> Append(Dropped(slot, thr), Spawned(pos, ms))]
    ELSE [outcome |-> out, next_move_future |-> slot, threads |-> thr]

\* mutant: a detected draw sets the outcome without ending on_new_move
on_new_move_LaunchOnDraw(out, pos, ms, chk, hist, rev, slot, thr) ==
    IF status(ms, chk) = "Checkmate"
    THEN [outcome |-> IF pos.side_to_move = White THEN "Checkmate(Black)"
                      ELSE "Checkmate(White)",
          next_move_future |-> slot, threads |-> thr]
    ELSE LET draw == detect_draw(pos, ms, chk, hist, rev) IN
         [try_launch_engine(out, pos, ms, slot, thr) EXCEPT
             !.outcome = IF draw # "None" THEN draw ELSE @]

\* ChessDisplay::on_new_move
on_new_move(out, pos, ms, chk, hist, rev, slot, thr) ==
    IF status(ms, chk) = "Checkmate"
    THEN [outcome |-> IF pos.side_to_move = White THEN "Checkmate(Black)"
                      ELSE "Checkmate(White)",
          next_move_future |-> slot, threads |-> thr]
    ELSE LET draw == detect_draw(pos, ms, chk, hist, rev) IN
         IF draw # "None"
         THEN [outcome |-> draw, next_move_future |-> slot, threads |-> thr]
         ELSE try_launch_engine(out, pos, ms, slot, thr)

\* ChessDisplay::new: the fields as constructed, then on_new_move
InitGame ==
    /\ white_player \in {"Human", "Computer"}
    /\ black_player \in {"Human", "Computer"}
    /\ board = StartBoard
    /\ side_to_move = White
    /\ en_passant = NoSquare
    /\ checkers = Checkers(StartBoard, White)
    /\ moves = available_moves(StartBoard, White, NoSquare)
    /\ selected_square = NoSquare
    /\ history = <<>>
    /\ reversable_moves = 0
    /\ LET r == on_new_move("None", Position(board, side_to_move, en_passant), moves,
                            checkers, history, reversable_moves, <<>>, <<>>)
       IN  /\ outcome = r.outcome
           /\ next_move_future = r.next_move_future
           /\ threads = r.threads
    /\ engine = "none"
    /\ evaluator = "none"
    /\ depth = 0
    /\ color = White
    /\ idx = 0
    /\ best_score = NEG_INF
    /\ best_moves = <<>>
    /\ scores = <<>>
    /\ evals = <<>>
    /\ stack = NoFrames
    /\ ret = NoRet
    /\ pc = "game"
    /\ result = NoMove
    /\ value = 0
    /\ divisor = 1
    /\ exact = NoRet
    /\ exacts = <<>>
    /\ last_eval = <<>>
    /\ tally = NoTally

\* ChessDisplay::do_move, with the slot and the threads as the caller left them
do_move(m, slot, thr) ==
    LET reversable == board[m.source].piece # "Pawn" /\ board[m.dest] = Empty
        rev == IF reversable THEN reversable_moves + 1 ELSE 0
        hist == Append(history, Position(board, side_to_move, en_passant))
        stm == opposite(side_to_move)
        ep == EnPassantAfter(board, m)
    IN  /\ reversable_moves' = rev
        /\ history' = hist
        /\ side_to_move' = stm
        /\ \E b \in {make_move_new(board, m)} :
              /\ board' = b
              /\ en_passant' = ep
              /\ \E ms \in {available_moves(b, stm, ep)} :
                 \E chk \in {Checkers(b, stm)} :
                 \E r \in {on_new_move(outcome, Position(b, stm, ep), ms, chk, hist, rev,
                                        slot, thr)} :
                    /\ moves' = ms
                    /\ checkers' = chk
                    /\ outcome' = r.outcome
                    /\ next_move_future' = r.next_move_future
                    /\ threads' = r.threads

\* mutant: update reads the slot without emptying it
update_Peek ==
    /\ next_move_future # <<>>
    /\ PliesFollowed < PliesBound
    /\ LET v == next_move_future[1] IN
       do_move(v.m, next_move_future, [threads EXCEPT ![v.by].applied = @ + 1])
    /\ UNCHANGED <<white_player, black_player, selected_square, engine_call>>

\* ChessDisplay::update when the slot holds a move (it does nothing otherwise)
update ==
    /\ next_move_future # <<>>
    /\ PliesFollowed < PliesBound
    /\ LET v == next_move_future[1] IN
       do_move(v.m, <<>>, [threads EXCEPT ![v.by].applied = @ + 1])
    /\ UNCHANGED <<white_player, black_player, selected_square, engine_call>>

\* mutant: the moves of the selected piece are offered on a computer's turn too
generate_moves_AnyTurn ==
    IF selected_square # NoSquare
    THEN SelectSeq(moves, LAMBDA m : m.source = selected_square)
    ELSE <<>>

\* ChessDisplay::generate_moves, the moves alone
generate_moves ==
    IF current_player(side_to_move) = "Computer" THEN <<>>
    ELSE IF selected_square # NoSquare
    THEN SelectSeq(moves, LAMBDA m : m.source = selected_square)
    ELSE <<>>

\* ChessDisplay::mouse_button_down_event, a left click on the square game_pos
mouse_button_down_event ==
    \E game_pos \in PlaySquares :
        LET hit == SelectSeq(generate_moves, LAMBDA m : m.dest = game_pos) IN
        /\ IF hit # <<>>
           THEN /\ PliesFollowed < PliesBound
                /\ do_move(hit[1], next_move_future, threads)
                /\ selected_square' = NoSquare
           ELSE /\ selected_square' = IF selected_square = game_pos THEN NoSquare
                                      ELSE game_pos
                /\ UNCHANGED <<board, side_to_move, en_passant, moves, checkers, history,
                               reversable_moves, outcome, next_move_future, threads>>
        /\ UNCHANGED <<white_player, black_player, engine_call>>

\* the thread holds the MutexGuard of its engine
Holds(t) == threads[t].at \in {"get_move", "replace", "exit"}

ThreadUnchanged ==
    UNCHANGED <<board, side_to_move, en_passant, moves, checkers, white_player, black_player,
                selected_square, history, reversable_moves, outcome, engine_call>>

\* mutant: the engine is used without its lock
ThreadLock_NoMutex(t) ==
    /\ threads[t].at = "lock"
    /\ threads' = [threads EXCEPT ![t].at = "get_move"]
    /\ UNCHANGED next_move_future
    /\ ThreadUnchanged

\* `let mut engine = engine.lock().unwrap();`
ThreadLock(t) ==
    /\ threads[t].at = "lock"
    /\ \A o \in 1..Len(threads) : threads[o].engine = threads[t].engine => ~Holds(o)
    /\ threads' = [threads EXCEPT ![t].at = "get_move"]
    /\ UNCHANGED next_move_future
    /\ ThreadUnchanged

\* the moves ChessAlgorithm::get_move may return on a board with the legal moves ms
get_move(ms) ==
    {ms[1]} \cup {ms[i] : i \in {k \in 1..Len(ms) : /\ ms[k].source \in PlaySquares
                                                     /\ ms[k].dest \in PlaySquares}}

\* `let m = engine.get_move(board);`
ThreadGetMove(t) ==
    /\ threads[t].at = "get_move"
    /\ \E m \in get_move(threads[t].moves) :
          threads' = [threads EXCEPT ![t].at = "replace", ![t].m = m]
    /\ UNCHANGED next_move_future
    /\ ThreadUnchanged

\* mutant: the thread ends without writing its move into the slot
ThreadReplace_Forgets(t) ==
    /\ threads[t].at = "replace"
    /\ threads' = [threads EXCEPT ![t].at = "exit"]
    /\ UNCHANGED next_move_future
    /\ ThreadUnchanged

\* `output.lock().unwrap().replace(m);`
ThreadReplace(t) ==
    /\ threads[t].at = "replace"
    /\ next_move_future' = <<[m |-> threads[t].m, by |-> t]>>
    /\ threads' = [Dropped(next_move_future, threads) EXCEPT ![t].at = "exit",
                                                            ![t].written = @ + 1]
    /\ ThreadUnchanged

\* the end of the closure, where the MutexGuard of the engine is dropped
ThreadExit(t) ==
    /\ threads[t].at = "exit"
    /\ threads' = [threads EXCEPT ![t].at = "done"]
    /\ UNCHANGED next_move_future
    /\ ThreadUnchanged

NextGame ==
    \/ update
    \/ mouse_button_down_event
    \/ \E t \in 1..Len(threads) : ThreadLock(t)
    \/ \E t \in 1..Len(threads) : ThreadGetMove(t)
    \/ \E t \in 1..Len(threads) : ThreadReplace(t)
    \/ \E t \in 1..Len(threads) : ThreadExit(t)

SpecGame == InitGame /\ [][NextGame]_vars

\* the step of the t-th spawned thread, if there is one
ThreadStep(t) ==
    /\ t <= Len(threads)
    /\ (ThreadLock(t) \/ ThreadGetMove(t) \/ ThreadReplace(t) \/ ThreadExit(t))

\* a thread is spawned at construction and after a move at most
MaxThreads == MaxPlies + 1

\* `if let Some(m) = ...take()` succeeds: update is enabled
UpdateEnabled == next_move_future # <<>> /\ PliesFollowed < PliesBound

\* the event loop keeps calling update, and the scheduler runs every
\* spawned thread; a click happens or not.  The first condition is
\* WF_vars(update) by its definition, with UpdateEnabled for
\* ENABLED <<update>>_vars.
SpecGameFair ==
    /\ SpecGame
    /\ ([]<>(~UpdateEnabled) \/ []<><<update>>_vars)
    /\ \A t \in 1..MaxThreads : WF_vars(ThreadStep(t))

\* a game that has reached one of the endgames and gone on from there
\* without capture: the fields of ChessDisplay after its last do_move
InitEndgame ==
    /\ white_player \in {"Human", "Computer"}
    /\ black_player \in {"Human", "Computer"}
    /\ \/ /\ history = [k \in 1..MatingPlies |-> MatingGame(k - 1)]
          /\ board = MatingGame(MatingPlies).board
          /\ side_to_move = MatingGame(MatingPlies).side_to_move
       \/ /\ history = [k \in 1..TourPlies |-> TourGame(k - 1)]
          /\ board = TourGame(TourPlies).board
          /\ side_to_move = TourGame(TourPlies).side_to_move
    /\ en_passant = NoSquare
    /\ reversable_moves = Len(history)
    /\ checkers = Checkers(board, side_to_move)
    /\ moves = available_moves(board, side_to_move, en_passant)
    /\ selected_square = NoSquare
    /\ LET r == on_new_move("None", Position(board, side_to_move, en_passant), moves,
                            checkers, history, reversable_moves, <<>>, <<>>)
       IN  /\ outcome = r.outcome
           /\ next_move_future = r.next_move_future
           /\ threads = r.threads
    /\ engine = "none"
    /\ evaluator = "none"
    /\ depth = 0
    /\ color = White
    /\ idx = 0
    /\ best_score = NEG_INF
    /\ best_moves = <<>>
    /\ scores = <<>>
    /\ evals = <<>>
    /\ stack = NoFrames
    /\ ret = NoRet
    /\ pc = "game"
    /\ result = NoMove
    /\ value = 0
    /\ divisor = 1
    /\ exact = NoRet
    /\ exacts = <<>>
    /\ last_eval = <<>>
    /\ tally = NoTally

SpecEndgame == InitEndgame /\ [][NextGame]_vars

----------------------------------------------------------------------------
(* Properties *)

Range(seq) == {seq[i] : i \in 1..Len(seq)}

\* |a - b| < 0.0001 for two scores, as a statement about the numbers
WithinEps(a, b) == a \notin {INF, NEG_INF} /\ b \notin {INF, NEG_INF} /\ a - b < EPS /\ b - a < EPS

AllScored == pc = "loop" /\ idx = Len(moves)

\* SingleLookaheadEngine::get_move as a function of the enumeration ms and of
\* the evaluator's results ev on the successors: the state after n iterations
RECURSIVE SingleLookaheadRun(_, _, _)
SingleLookaheadRun(ms, ev, n) ==
    IF n = 0
    THEN [best_score |-> NEG_INF, best_moves |-> <<>>]
    ELSE LET before == SingleLookaheadRun(ms, ev, n - 1)
         IN  TieStep(before.best_score, before.best_moves, ms[n], ev[n])

\* C1 (as claimed): TreeSearchEngine.get_move never draws from an empty
\* tied-best set, never aborts, and returns a move of the root enumeration,
\* for every depth and every finite evaluator.
C1_TreeSearchReturnsLegalMove ==
    engine = "tree" =>
        /\ pc # "panic"
        /\ (AllScored => best_moves # <<>>)
        /\ (pc = "done" => result \in Range(moves))

\* C2: SingleLookaheadEngine.get_move never draws from an empty tied-best
\* set, never aborts, and the move it returns is in the enumeration of the
\* position it was given.
C2_SingleReturnsLegalMove ==
    engine = "single" =>
        /\ pc # "panic"
        /\ (AllScored => best_moves # <<>>)
        /\ Range(best_moves) \subseteq Range(moves)
        /\ (pc = "done" => result \in Range(moves))

C2_Witness ==
    engine = "single" /\ evaluator = "table" /\ pc = "done" /\ Len(moves) = MaxMoves
        /\ result = moves[2]

\* the pairs of scored moves whose scores are within 0.0001 of each other
NearPairs == {p \in (1..idx) \X (1..idx) : p[1] < p[2] /\ WithinEps(scores[p[1]], scores[p[2]])}

\* exactly two moves, i and j, have scores within 0.0001 of each other and
\* every other move scores strictly lower than both
TwoTied(i, j) ==
    /\ NearPairs = {<<i, j>>}
    /\ \A k \in (1..idx) \ {i, j} : scores[k] < scores[i] /\ scores[k] < scores[j]

\* C3: when exactly two moves have scores within 0.0001 of each other and
\* every other move scores strictly lower than both, the tied-best set of
\* either engine holds those two moves and no third one, in every
\* enumeration order, and the move returned is one of the two.
C3_OnlyTheTwoTied ==
    \A i, j \in 1..idx :
        (pc \in {"loop", "done"} /\ idx = Len(moves) /\ TwoTied(i, j)) =>
            /\ Range(best_moves) = {moves[i], moves[j]}
            /\ (pc = "done" => result \in {moves[i], moves[j]})

C3_Witness ==
    /\ pc = "done" /\ engine = "tree" /\ Len(moves) = 3
    /\ TwoTied(1, 3) /\ scores[2] < scores[1] /\ scores[1] # scores[3]
    /\ result = moves[3]

\* C4 (as claimed): with depth >= 1 and the evaluator that returns 0 for
\* every position, every root move gets the same score and the tied-best set
\* is the whole enumeration.
C4_ConstantEvaluatorTiesAll ==
    (engine = "tree" /\ depth >= 1 /\ evaluator = "zero" /\ AllScored) =>
        /\ \A i, j \in 1..idx : scores[i] = scores[j]
        /\ best_moves = moves

\* C5: TreeSearchEngine with depth 0 gives every root move the evaluator's
\* score of its successor, and its best_score and tied-best set are those of
\* SingleLookaheadEngine on the same enumeration and evaluator results.
C5_DepthZeroIsSingleLookahead ==
    (engine = "tree" /\ depth = 0 /\ pc \in {"loop", "done"}) =>
        /\ scores = evals
        /\ [best_score |-> best_score, best_moves |-> best_moves]
               = SingleLookaheadRun(moves, evals, idx)
        /\ (pc = "done" =>
               result \in Range(SingleLookaheadRun(moves, evals, Len(moves)).best_moves))

C5_Witness ==
    /\ engine = "tree" /\ depth = 0 /\ pc = "done" /\ Len(moves) = 3
    /\ evals = <<1, 0, 2>> /\ result = moves[3]

\* the largest score among the moves scored so far
MaxScored == CHOOSE s \in Range(scores) : \A t \in Range(scores) : t <= s

\* C6 (as claimed): after all moves are scored the tied-best set is the set
\* of moves whose score is within 0.0001 of the maximum score, whatever the
\* enumeration order.
C6_SetIsNearMaximum ==
    (AllScored /\ \A k \in 1..idx : ~IsInf(scores[k])) =>
        Range(best_moves) = {moves[k] : k \in {n \in 1..idx : WithinEps(scores[n], MaxScored)}}

\* the index in the enumeration of the first member of the tied-best set
FirstMember == CHOOSE r \in 1..idx : moves[r] = best_moves[1]

\* C6 (amended): the tied-best set is empty only if every score is
\* -infinity; otherwise best_score is the score of its first member, its
\* members are that move and the later moves within 0.0001 of best_score, in
\* enumeration order, and no score reaches best_score + 0.0001 or exceeds it
\* without being within 0.0001 of it.
C6_SetIsNearFirstMember ==
    (pc \in {"loop", "done"} /\ Len(scores) = idx) =>
        IF best_moves = <<>>
        THEN \A k \in 1..idx : scores[k] = NEG_INF
        ELSE LET r == FirstMember IN
             /\ best_score = scores[r]
             /\ Range(best_moves) =
                   {moves[k] : k \in {n \in r..idx : n = r \/ WithinEps(scores[n], scores[r])}}
             /\ \A k \in 1..idx : scores[k] <= best_score \/ WithinEps(scores[k], best_score)
             /\ \A a, b \in 1..Len(best_moves) :
                   a < b => \E x, y \in 1..idx : x < y /\ moves[x] = best_moves[a]
                                                       /\ moves[y] = best_moves[b]

\* an order in which the set misses a move within 0.0001 of the maximum
C6_Witness ==
    /\ AllScored /\ engine = "single" /\ scores = <<0, 1, 2>>
    /\ best_moves = <<moves[3]>>

\* C7: what one iteration of the move loop did with its score
Iterated == idx' = idx + 1
NewScore == scores'[idx']
NewMove == moves[idx']
Added == best_moves' = Append(best_moves, NewMove) /\ best_score' = best_score
Replaced == best_moves' = <<NewMove>> /\ best_score' = NewScore
Discarded == best_moves' = best_moves /\ best_score' = best_score

\* C7 (as claimed): every score is within 0.0001 of best (added, best kept),
\* or strictly greater than best + 0.0001 (set replaced, best updated), or
\* strictly less (discarded), and is treated accordingly.
C7_ThreeCasesAsClaimed ==
    [][Iterated =>
          \/ (WithinEps(NewScore, best_score) /\ Added)
          \/ (NewScore > best_score + EPS /\ Replaced)
          \/ (NewScore < best_score /\ ~WithinEps(NewScore, best_score) /\ Discarded)]_vars

\* C7 (amended): a score whose difference from best is finite and below
\* 0.0001 in absolute value is added and leaves best unchanged; any other
\* score greater than best (that is, at least best + 0.0001) replaces the
\* set and becomes best; any other score (at most best - 0.0001, or equal to
\* an infinite best) is discarded.
C7_ThreeCases ==
    [][Iterated =>
          \/ (WithinEps(NewScore, best_score) /\ Added)
          \/ (~WithinEps(NewScore, best_score) /\ NewScore > best_score /\ Replaced
                /\ (NewScore >= best_score + EPS \/ best_score = NEG_INF))
          \/ (~WithinEps(NewScore, best_score) /\ NewScore <= best_score /\ Discarded
                /\ (NewScore <= best_score - EPS \/ (NewScore = best_score /\ IsInf(best_score))))]_vars

\* a score exactly 0.0001 above best has replaced the set
C7_Witness ==
    /\ pc = "loop" /\ idx = 2 /\ scores = <<0, EPS>> /\ best_moves = <<moves[2]>>
    /\ best_score = EPS

\* the number of c's pieces on squares of c's color minus the number on the
\* other squares (a1, index 0, is a dark square)
MatchCount(b, c) ==
    LET own == {sq \in ALL_SQUARES : b[sq].color = c}
        dark == {sq \in ALL_SQUARES : (sq \div 8 + sq) % 2 = 0}
        same == IF c = Black THEN own \cap dark ELSE own \ dark
    IN  Cardinality(same) - Cardinality(own \ same)

\* b3, d3, f3, h3, Nf3, Nh3: the first moves that take a white piece from a
\* dark square to a light one
BestMatchingFirstMoves ==
    {Move(9, 17), Move(11, 19), Move(13, 21), Move(15, 23), Move(6, 21), Move(6, 23)}

\* C8: from the starting position, SingleLookaheadEngine for White with
\* eval_matching_colors ends with exactly the first moves whose resulting
\* position has the largest matching-colors count, and returns one of them.
C8_StartMatchingColors ==
    (engine = "single" /\ evaluator = "matching" /\ pc \in {"loop", "done"}
        /\ idx = Len(moves)) =>
        /\ moves = MovePool
        /\ Len(moves) = 20
        /\ Range(best_moves) =
              {m \in Range(moves) :
                  \A o \in Range(moves) :
                      MatchCount(make_move_new(board, o), White)
                          <= MatchCount(make_move_new(board, m), White)}
        /\ Range(best_moves) = BestMatchingFirstMoves
        /\ best_score = 2 * ONE
        /\ (pc = "done" => result \in BestMatchingFirstMoves)

C8_Witness ==
    evaluator = "matching" /\ pc = "done" /\ result = Move(6, 23)

\* the piece a move captures: the one on its destination, or the pawn taken
\* en passant; Empty if it captures nothing
Captured(b, m) ==
    IF b[m.dest] # Empty THEN b[m.dest]
    ELSE IF EnPassantVictim(b, m) # NoSquare THEN b[EnPassantVictim(b, m)]
    ELSE Empty

NoReplyCaptures == \A i \in 1..Len(moves) : Captured(board, moves[i]) = Empty

Insist2Called == evaluator = "insist_2" /\ pc \in {"returned", "panic"}

\* C9 (as claimed): on every position whose side to move is not the
\* perspective and none of whose legal replies captures, terminal or not,
\* eval_insist_2 returns what eval_generous returns.
C9_Insist2IsGenerousAsClaimed ==
    (Insist2Called /\ side_to_move # color /\ NoReplyCaptures) =>
        /\ pc = "returned"
        /\ value = eval_generous(board, side_to_move, moves, color).v

\* C9 (amended): on every position with at least one legal reply whose side
\* to move is not the perspective and none of whose legal replies captures,
\* eval_insist_2 returns what eval_generous returns (which is 0).
C9_Insist2IsGenerous ==
    (Insist2Called /\ side_to_move # color /\ NoReplyCaptures /\ moves # <<>>) =>
        /\ pc = "returned"
        /\ ~eval_generous(board, side_to_move, moves, color).panic
        /\ value = eval_generous(board, side_to_move, moves, color).v
        /\ value = 0

C9_Witness ==
    /\ Insist2Called /\ side_to_move # color /\ NoReplyCaptures /\ Len(moves) >= 2
    /\ \E sq \in PoolSquares : board[sq].color = color
    /\ \E sq \in PoolSquares : board[sq].color = side_to_move
    /\ pc = "returned" /\ value = 0

\* the king of color c is attacked by a piece of the other color
InCheck(b, c) ==
    \E sq \in ALL_SQUARES :
        b[sq].color = opposite(c) /\ Attacks(b, sq, king_square(b, c))

\* Pawn 1, Knight 3, Bishop 3, Rook 5, Queen 9, King 0, summed over c's pieces
Material(b, c) ==
    LET count(p) == Cardinality({sq \in ALL_SQUARES : b[sq] = Cell(c, p)})
    IN  ONE * (count("Pawn") + 3 * count("Knight") + 3 * count("Bishop")
                 + 5 * count("Rook") + 9 * count("Queen"))

PacifistCalled == evaluator = "pacifist" /\ pc \in {"returned", "panic"}
IsCheckmate == moves = <<>> /\ InCheck(board, side_to_move)

C11_PacifistSentinels ==
    PacifistCalled =>
        /\ pc = "returned"
        /\ ((IsCheckmate /\ color = side_to_move) => value = MATE)
        /\ MATE < CHECK
        /\ ((~IsCheckmate /\ ~InCheck(board, side_to_move)) =>
               /\ value = Material(board, opposite(color))
               /\ CHECK < value)

\* the perspective is mated although its opponent has material on the board
C11_Witness ==
    /\ PacifistCalled /\ IsCheckmate /\ color = side_to_move
    /\ Material(board, opposite(color)) > 0
    /\ value = MATE

\* Pawn 1, Knight 3, Bishop 3, Rook 5, Queen 9, nothing 0
PointsOf(cell) ==
    CASE cell.piece = "Pawn" -> 1
      [] cell.piece \in {"Knight", "Bishop"} -> 3
      [] cell.piece = "Rook" -> 5
      [] cell.piece = "Queen" -> 9
      [] OTHER -> 0

\* the points of the pieces that the first n moves of ms capture on b
RECURSIVE CapturePoints(_, _, _)
CapturePoints(b, ms, n) ==
    IF n = 0 THEN 0 ELSE CapturePoints(b, ms, n - 1) + PointsOf(Captured(b, ms[n]))

GenerousCalled == evaluator = "generous" /\ pc \in {"returned", "panic"}

\* C12 (as claimed): on every position whose side to move is not the
\* perspective, eval_generous returns the sum over the legal replies of the
\* value of the piece the reply captures, whatever square the captured piece
\* stands on (an en passant capture included).
C12_GenerousSumsCaptures ==
    (GenerousCalled /\ side_to_move # color) =>
        /\ pc = "returned"
        /\ divisor = 1
        /\ value = ONE * CapturePoints(board, moves, Len(moves))

OpponentRelative == {"generous", "insist_2", "insist_3"}

\* C13: eval_generous, eval_insist_2 and eval_insist_3 abort without a score
\* exactly when the perspective is the side to move, on every position,
\* checkmate and stalemate included; otherwise they return a score.
C13_PanicIffOwnTurn ==
    (evaluator \in OpponentRelative /\ pc \in {"returned", "panic"}) =>
        (pc = "panic" <=> color = side_to_move)

\* eval_insist_3 aborts on a checkmate of its own perspective
C13_Witness ==
    /\ evaluator = "insist_3" /\ pc = "panic"
    /\ IsCheckmate /\ color = side_to_move

\* C14: for every position and color, eval_matching_colors is exactly the
\* negation of eval_opposite_colors.
C14_MatchingNegatesOpposite ==
    /\ (evaluator = "matching" /\ pc = "returned") =>
           value = -eval_opposite_colors(board, color)
    /\ (evaluator = "opposite" /\ pc = "returned") =>
           value = -eval_matching_colors(board, color)

\* White's king and one more white piece, both on light squares
C14_Witness ==
    /\ evaluator = "opposite" /\ pc = "returned" /\ color = White
    /\ value = -2 * ONE
    /\ eval_matching_colors(board, color) = 2 * ONE

Insist3Called == evaluator = "insist_3" /\ pc \in {"returned", "panic"}

\* C15 (as claimed): on every position whose side to move is not the
\* perspective, eval_insist_3 returns the extreme negative sentinel on
\* checkmate, the large negative sentinel on stalemate, and otherwise the sum
\* of the values captured by the legal replies divided by their number.
C15_Insist3Average ==
    (Insist3Called /\ side_to_move # color) =>
        /\ pc = "returned"
        /\ IF IsCheckmate THEN value = MATE /\ divisor = 1
           ELSE IF moves = <<>> THEN value = CHECK /\ divisor = 1
           ELSE value * Len(moves) = ONE * CapturePoints(board, moves, Len(moves)) * divisor

\* the largest number of steps a call with depth d can take, in a tree whose
\* positions have at most MaxReplies legal moves
RECURSIVE CallCost(_)
CallCost(d) == IF d = 0 THEN 1 ELSE 2 + MaxReplies * (2 + CallCost(d - 1))

\* the steps left to the call of frame f, its callee's aside
FrameCost(f) ==
    CASE f.at = "entry" -> CallCost(f.depth)
      [] f.at = "for" -> 1 + f.left * (2 + CallCost(f.depth - 1))
      [] f.at = "call" -> 2 + f.left * (2 + CallCost(f.depth - 1))

RECURSIVE StackCost(_)
StackCost(n) == IF n = 0 THEN 0 ELSE StackCost(n - 1) + FrameCost(stack[n])

\* a bound on the steps get_move has left: it decreases with every step
StepsLeft ==
    LET each == 2 + CallCost(depth)
        todo == Len(moves) - idx
    IN  CASE pc = "loop" -> 1 + todo * each
          [] pc = "search" -> 2 + (todo - 1) * each + StackCost(Len(stack))
          [] OTHER -> 0

\* a call is entered with the engine's depth at the root and with its caller's
\* depth less one below it, no depth is negative, and a call with depth 0
\* neither loops nor calls
DepthDiscipline ==
    /\ Len(stack') = Len(stack) + 1 =>
          stack'[Len(stack')].depth = (IF stack = NoFrames THEN depth ELSE Top.depth - 1)
    /\ \A i \in 1..Len(stack') :
          /\ stack'[i].depth >= 0
          /\ stack'[i].depth = 0 => stack'[i].at = "entry"
          /\ stack'[i].depth = depth - (i - 1)

Finished == pc \in {"done", "panic"}

\* C19: the search terminates: every recursive call of alpha_beta_max /
\* alpha_beta_min has depth exactly one less than its caller, the recursion
\* stops at depth 0, the depth never goes below 0, every step of get_move
\* lowers a non-negative bound on the steps left, and get_move finishes.
C19_SearchTerminates ==
    /\ [][DepthDiscipline /\ StepsLeft' < StepsLeft /\ StepsLeft' >= 0]_vars
    /\ <>Finished

\* a call with depth 0 below two levels of recursion has returned
C19_Witness ==
    /\ engine = "tree" /\ depth = MaxDepth /\ pc = "search"
    /\ Len(stack) = MaxDepth /\ Top.at = "call" /\ ret # NoRet

\* C20: the score get_move obtains for a root move from alpha_beta_min with
\* the window (-infinity, +infinity) is the value of unpruned minimax on the
\* same tree, so the scores, best_score and the tied-best set are those the
\* move loop computes from the unpruned minimax values.
C20_RootScoresAreMinimax ==
    engine = "tree" =>
        /\ (pc = "search" /\ stack = NoFrames /\ ret # NoRet) => ret = exact
        /\ pc \in {"loop", "done"} =>
              /\ scores = exacts
              /\ [best_score |-> best_score, best_moves |-> best_moves]
                     = SingleLookaheadRun(moves, exacts, idx)

\* the first root move has its minimax value 1 as score, and in the search
\* below the second a cutoff has made a call return its bound 0 to the root
\* call although the minimax value of that call is 2
C20_Witness ==
    /\ engine = "tree" /\ depth = MaxDepth /\ pc = "search" /\ idx = 1
    /\ scores = <<1>> /\ exacts = <<1>>
    /\ Len(stack) = 1 /\ ret = <<0>> /\ exact = <<2>>

Launched == 1..Len(threads)

\* C16: every computation writes its move into the slot exactly once, when
\* it finishes, and the foreground applies it at most once and only from the
\* slot; no move is overwritten or thrown away, so a move that is written
\* and not yet applied is the one the slot holds.
C16_WrittenOnceAppliedOnce ==
    /\ Len(next_move_future) <= 1
    /\ \A t \in Launched :
          /\ threads[t].written = (IF threads[t].at \in {"exit", "done"} THEN 1 ELSE 0)
          /\ threads[t].applied <= threads[t].written
          /\ threads[t].dropped = 0
          /\ (threads[t].written = 1 /\ threads[t].applied = 0) <=>
                next_move_future = <<[m |-> threads[t].m, by |-> t]>>

\* two computations have run, and the move of each has been applied once
C16_Witness ==
    /\ Len(threads) >= 3
    /\ threads[1].written = 1 /\ threads[1].applied = 1
    /\ threads[2].written = 1 /\ threads[2].applied = 1
    /\ Len(history) = 2

\* C17: at any moment at most one thread holds an Algorithm instance (the
\* engine of White, the engine of Black) and computes with it.
C17_OneHolderPerEngine ==
    \A c \in Colors :
        Cardinality({t \in Launched : threads[t].engine = c /\ Holds(t)}) <= 1

\* a later thread waits for White's engine while the thread that has written
\* White's previous move still holds it
C17_Witness ==
    \E t, u \in Launched :
        /\ t < u
        /\ threads[t].engine = White /\ threads[u].engine = White
        /\ threads[t].at = "exit" /\ threads[u].at = "lock"

\* C18: when try_launch_engine has started a computation the slot is empty;
\* the slot never holds more than one value, and a value that is applied to
\* the board comes from the computation started last, never from an earlier
\* one.
C18_NoStaleValue ==
    [][/\ Len(threads') > Len(threads) => next_move_future' = <<>>
       /\ Len(next_move_future') <= 1
       /\ \A t \in Launched :
             /\ threads'[t].applied > threads[t].applied => t = Len(threads)
             /\ threads'[t].written > threads[t].written => t = Len(threads)]_vars

\* the second computation has been started on an empty slot and has written
C18_Witness ==
    /\ Len(threads) = 2
    /\ threads[1].applied = 1
    /\ next_move_future = <<[m |-> threads[2].m, by |-> 2]>>

\* x clamped to [a, b]
Clamp(x, a, b) == IF x < a THEN a ELSE IF x > b THEN b ELSE x

\* a call with depth >= 1 has just returned to its caller, whose window it was given
ReturnedToCaller ==
    /\ pc = "search" /\ ret # NoRet /\ stack # NoFrames
    /\ Top.at = "call" /\ Top.depth >= 2

\* what a layer does with the value of a child, and at the end of its loop
FailHardSteps ==
    /\ (Searching("max", "call") /\ ret # NoRet) =>
          IF ret[1] >= Top.beta
          THEN ret' = <<Top.beta>> /\ stack' = Pop
          ELSE /\ ret' = NoRet /\ Len(stack') = Len(stack)
               /\ stack'[Len(stack)].alpha = (IF ret[1] > Top.alpha THEN ret[1] ELSE Top.alpha)
               /\ stack'[Len(stack)].beta = Top.beta
    /\ (Searching("min", "call") /\ ret # NoRet) =>
          IF ret[1] <= Top.alpha
          THEN ret' = <<Top.alpha>> /\ stack' = Pop
          ELSE /\ ret' = NoRet /\ Len(stack') = Len(stack)
               /\ stack'[Len(stack)].beta = (IF ret[1] < Top.beta THEN ret[1] ELSE Top.beta)
               /\ stack'[Len(stack)].alpha = Top.alpha
    /\ (Searching("max", "for") /\ Top.left = 0) => ret' = <<Top.alpha>> /\ stack' = Pop
    /\ (Searching("min", "for") /\ Top.left = 0) => ret' = <<Top.beta>> /\ stack' = Pop

\* C21: for every window with alpha < beta, alpha_beta_max and alpha_beta_min
\* at depth >= 1 are fail-hard: the value returned lies in [alpha, beta] and
\* is the unpruned minimax value of the node clamped to [alpha, beta]; the
\* maximizing layer returns beta as soon as a child value is >= beta and
\* otherwise keeps the largest of alpha and the child values and returns it,
\* the minimizing layer returns alpha as soon as a child value is <= alpha
\* and otherwise keeps the smallest of beta and the child values.
C21_FailHard ==
    /\ [](\A i \in 1..Len(stack) : stack[i].alpha < stack[i].beta)
    /\ [](ReturnedToCaller =>
            /\ Top.alpha <= ret[1] /\ ret[1] <= Top.beta
            /\ ret[1] = Clamp(exact[1], Top.alpha, Top.beta))
    /\ [][FailHardSteps]_vars

\* a minimizing call with the window (1, 2) has returned alpha = 1 on a
\* cutoff, and its minimax value 0 lies below the window
C21_Witness ==
    /\ ReturnedToCaller /\ Top.fn = "max" /\ Top.alpha = 1 /\ Top.beta = 2
    /\ ret = <<1>> /\ exact = <<0>>

\* a call finds that its position has no legal move
DeadEnd ==
    /\ pc = "search" /\ stack # NoFrames /\ Top.at = "entry"
    /\ Len(stack') = Len(stack)
    /\ stack'[Len(stack)].at = "for" /\ stack'[Len(stack)].left = 0

\* the loop of a call has no move left
LoopEnds == pc = "search" /\ stack # NoFrames /\ Top.at = "for" /\ Top.left = 0

\* C22: TreeSearchEngine calls the evaluator only on positions exactly
\* depth + 1 plies below the root, with its own color as perspective; a
\* position without legal moves above the horizon is not evaluated: the call
\* on it keeps its window and returns its beta if minimizing, its alpha if
\* maximizing, so with depth >= 1 the root call on a position without legal
\* moves returns +infinity, which get_move takes as the score of the root move.
C22_EvaluatesOnlyAtHorizon ==
    /\ []((engine = "tree" /\ last_eval # <<>>) =>
            /\ last_eval[1].ply = depth + 1
            /\ last_eval[1].color = color)
    /\ [][/\ DeadEnd =>
               /\ Top.depth >= 1
               /\ last_eval' = last_eval /\ evals' = evals
               /\ stack'[Len(stack)].alpha = Top.alpha
               /\ stack'[Len(stack)].beta = Top.beta
               /\ Len(stack) = 1 => (Top.fn = "min" /\ Top.beta = INF)
          /\ LoopEnds =>
               /\ last_eval' = last_eval /\ evals' = evals
               /\ stack' = Pop
               /\ ret' = <<IF Top.fn = "min" THEN Top.beta ELSE Top.alpha>>
          /\ (engine = "tree" /\ pc = "search" /\ stack = NoFrames /\ ret # NoRet) =>
               scores' = Append(scores, ret[1])]_vars

\* the opponent has no legal move after the first root move, which is scored
\* +infinity without any call of the evaluator; below the second root move
\* the evaluator has been called, depth + 1 plies below the root
C22_Witness ==
    /\ engine = "tree" /\ depth = MaxDepth /\ evaluator = "table"
    /\ scores = <<INF>> /\ evals = <<>>
    /\ pc = "search" /\ idx = 1 /\ Len(stack) = MaxDepth
    /\ last_eval # <<>> /\ last_eval[1].ply = MaxDepth + 1

\* the smallest number of points that one of the first n moves of ms captures on b
RECURSIVE MinCapturePoints(_, _, _)
MinCapturePoints(b, ms, n) ==
    IF n = 1 THEN PointsOf(Captured(b, ms[1]))
    ELSE LET rest == MinCapturePoints(b, ms, n - 1)
             this == PointsOf(Captured(b, ms[n]))
         IN  IF this < rest THEN this ELSE rest

\* C23 (as claimed): on every position whose side to move is not the
\* perspective, eval_insist_2 returns the extreme negative sentinel on
\* checkmate and the large negative sentinel on stalemate; otherwise, with
\* the minimum over the legal replies of the value of the piece the reply
\* captures (0 for a reply that captures nothing), it returns eval_generous
\* of the position if the minimum is below 0.0001 and 10000 + minimum if not.
C23_Insist2MinimumCapture ==
    (Insist2Called /\ side_to_move # color) =>
        /\ pc = "returned"
        /\ divisor = 1
        /\ IF IsCheckmate THEN value = MATE
           ELSE IF moves = <<>> THEN value = CHECK
           ELSE LET minimum == ONE * MinCapturePoints(board, moves, Len(moves)) IN
                IF minimum < EPS
                THEN value = eval_generous(board, side_to_move, moves, color).v
                ELSE value = 10000 * ONE + minimum

\* C24: on positions with at least one and at most MaxLegalReplies legal
\* replies, each capturing nothing or a piece worth at most 9, every score of
\* the 10000 + minimum branch of eval_insist_2 is above 10000 and every score
\* of its generous fallback branch is below 10000, so the first is strictly
\* greater than the second, and both are strictly greater than the stalemate
\* and checkmate sentinels.
C24_OffsetDominatesFallback ==
    (pc = "returned" /\ tally # NoTally /\ tally[1].n > 0) =>
        /\ IF tally[1].min >= EPS
           THEN value = 10000 * ONE + tally[1].min /\ value > 10000 * ONE
           ELSE value = tally[1].sum /\ value >= 0 /\ value < 10000 * ONE
        /\ value > CHECK
        /\ value > MATE

\* every one of MaxLegalReplies replies captures a queen but one, which
\* captures nothing: the largest score of the fallback branch
C24_Witness ==
    /\ pc = "returned" /\ tally # NoTally
    /\ tally[1].n = MaxLegalReplies /\ tally[1].min = 0
    /\ value = 9 * ONE * (MaxLegalReplies - 1)

\* a finite score is among those the move loop has processed
FiniteSeen == \E k \in 1..Len(scores) : ~IsInf(scores[k])

\* the score the loop has processed for the move m
ScoreOf(m) == scores[CHOOSE k \in 1..Len(scores) : moves[k] = m]

\* x + 0.0001
PlusEps(x) == IF IsInf(x) THEN x ELSE x + EPS

\* C25 (as claimed): at every point of the move loop of either engine, once
\* a finite score has been seen: best_score is the score of the first move
\* of the tied-best set, an accumulated (near-equal) move does not change
\* it, every member of the set has a score within 0.0001 of best_score, and
\* every score processed so far is smaller than best_score + 0.0001.
C25_BestScoreInvariant ==
    /\ []((pc \in {"loop", "search"} /\ engine \in {"single", "tree"} /\ FiniteSeen) =>
            /\ best_moves # <<>>
            /\ best_score = ScoreOf(best_moves[1])
            /\ \A i \in 1..Len(best_moves) : WithinEps(ScoreOf(best_moves[i]), best_score)
            /\ \A k \in 1..Len(scores) : scores[k] < PlusEps(best_score))
    /\ [][(Iterated /\ Len(best_moves') > Len(best_moves) /\ Len(best_moves) > 0) =>
              best_score' = best_score]_vars

\* the Board of the display
CurrentPosition == Position(board, side_to_move, en_passant)

\* update applies the move of computation t
Applies(t) == threads'[t].applied > threads[t].applied

\* C26: whenever update takes a move out of the slot, the board is still the
\* position handed to the engine when that computation was launched (no
\* move, human or engine, has been applied in between), the move is a legal
\* move of the current board, and it is that move which is applied; as long
\* as a computation runs or its move waits in the slot, the board is the one
\* it was given.
C26_AppliedToLaunchPosition ==
    /\ [](\A t \in Launched :
            (threads[t].applied = 0 /\ threads[t].dropped = 0) =>
                threads[t].board = CurrentPosition)
    /\ [](next_move_future # <<>> =>
            /\ threads[next_move_future[1].by].board = CurrentPosition
            /\ next_move_future[1].m \in Range(moves))
    /\ [][\A t \in Launched :
             Applies(t) =>
                 /\ threads[t].board = CurrentPosition
                 /\ Legal(board, side_to_move, en_passant, threads[t].m.source,
                          threads[t].m.dest)
                 /\ board[threads[t].m.source].color = side_to_move
                 /\ board' = make_move_new(board, threads[t].m)
                 /\ side_to_move' = opposite(side_to_move)]_vars

\* a human has moved for White, and the move Black's engine computed on the
\* position after it has been applied
C26_Witness ==
    /\ white_player = "Human" /\ black_player = "Computer"
    /\ Len(history) = 2 /\ Len(threads) = 1
    /\ threads[1].applied = 1
    /\ threads[1].board = history[2]
    /\ next_move_future = <<>>

\* the evaluator is given a position where the engine's own color is to move
OwnTurnEvaluated == last_eval # <<>> /\ last_eval[1].side_to_move = last_eval[1].color

\* C29: an engine is asked for a move on a position where its own color is
\* to move.  Every evaluator call of SingleLookaheadEngine is then on a
\* position where the opponent is to move, so the check of the
\* opponent-relative evaluators (side to move = color) does not fail there;
\* every evaluator call of TreeSearchEngine with depth D is on a position
\* where the opponent is to move if D is even and the engine's own color if
\* D is odd.
C29_SideToMoveAtEvaluation ==
    (side_to_move = color /\ last_eval # <<>>) =>
        /\ last_eval[1].color = color
        /\ engine = "single" =>
              /\ last_eval[1].side_to_move = opposite(color)
              /\ ~OwnTurnEvaluated
        /\ engine = "tree" =>
              last_eval[1].side_to_move = (IF depth % 2 = 0 THEN opposite(color) ELSE color)

\* a tree search of odd depth has evaluated a position where its own color
\* is to move, after a scored root move
C29_Witness ==
    /\ engine = "tree" /\ depth % 2 = 1 /\ side_to_move = color
    /\ OwnTurnEvaluated
    /\ Len(scores) >= 1

\* computation t has been launched and has not returned from get_move
Computing(t) == threads[t].at \in {"lock", "get_move"}

\* a computation is launched in this step
Launches == Len(threads') > Len(threads)

\* C28: an engine's get_move is invoked only on a position that has a legal
\* move, while no outcome is set, and whose side to move is the color the
\* engine was constructed with: the position handed to a computation is the
\* current one, it is a computer player's turn there, it is not checkmate,
\* and draw detection (stalemate, insufficient material, repetition,
\* move-count rule) finds nothing on it; no computation is launched once an
\* outcome has been set.
C28_LaunchedOnlyOnOpenGame ==
    /\ [](\A t \in Launched :
            Computing(t) =>
                /\ outcome = "None"
                /\ threads[t].board = CurrentPosition
                /\ threads[t].moves = moves
                /\ moves # <<>>
                /\ threads[t].color = side_to_move
                /\ current_player(side_to_move) = "Computer"
                /\ status(moves, checkers) = "Ongoing"
                /\ ~is_insufficient_material(board)
                /\ Cardinality({i \in 1..Len(history) : history[i] = CurrentPosition}) < 3
                /\ reversable_moves < MoveCountRule
                /\ detect_draw(CurrentPosition, moves, checkers, history,
                               reversable_moves) = "None")
    /\ [][Launches => (outcome = "None" /\ outcome' = "None")]_vars

\* Black's engine is computing one move short of the move-count rule, after
\* a human move for White
C28_Witness ==
    /\ white_player = "Human" /\ black_player = "Computer"
    /\ reversable_moves = MoveCountRule - 1
    /\ PliesFollowed = 1
    /\ \E t \in Launched : threads[t].at = "get_move" /\ threads[t].color = Black

\* a computer player is to move in an open game, and no computation runs
\* or has left a move in the slot
Stuck ==
    /\ current_player(side_to_move) = "Computer"
    /\ outcome = "None"
    /\ \A t \in Launched : threads[t].at \notin {"lock", "get_move", "replace"}
    /\ next_move_future = <<>>

\* computation t has been launched while moves are still followed, and its
\* move has not been applied
Waiting(t) == t <= Len(threads) /\ threads[t].applied = 0 /\ PliesFollowed < PliesBound

\* C27: when update and the threads are scheduled fairly and get_move
\* returns, every computation launched for a computer player (while moves
\* are still followed) is eventually followed by its move being applied to
\* the board: no computation waits forever, an applied move staying
\* applied; and the game does not stay forever in a state where a computer
\* player is to move, no outcome is set, no computation runs and the slot
\* is empty.
C27_LaunchedMoveIsApplied ==
    /\ \A t \in 1..MaxThreads : []<>(~Waiting(t))
    /\ []<>(~Stuck)

\* both players are computers, and the move of the second computation, made
\* for Black, has been applied
C27_Witness ==
    /\ white_player = "Computer" /\ black_player = "Computer"
    /\ Len(threads) >= 2
    /\ threads[2].color = Black
    /\ threads[2].applied = 1
    /\ PliesFollowed = 2

====
